---- MODULE Spec2Model ----
(***************************************************************************)
(* Model of src/resources/user.rs: the Talent resource of searchspot.      *)
(*                                                                         *)
(* Timestamps (RFC 3339 strings in the program) are integers 1..MaxTime,   *)
(* compared as the engine compares dates.  Relevance scores (f64 in the    *)
(* program) are integers counting tenths, so that 0.9 is 9.                *)
(***************************************************************************)
EXTENDS Integers, Sequences, FiniteSets, TLC

VARIABLES exists, docs, now, pc, ret, script

vars == <<exists, docs, now, pc, ret, script>>

-----------------------------------------------------------------------------
(* Bounds of the model *)

MaxTime == 3

MaxId == 2

MaxFixture == 3

\* The longest response of the engine drawn as an input
MaxHits == 4

-----------------------------------------------------------------------------
(* Values *)

None == [some |-> FALSE, v |-> 0]

Some(x) == [some |-> TRUE, v |-> x]

\* params::Value, as far as the program looks at it
Absent == [t |-> "absent", valid |-> FALSE, v |-> 0, s |-> ""]

DateString(time) == [t |-> "string", valid |-> TRUE, v |-> time, s |-> "date"]

String(str) == [t |-> "string", valid |-> FALSE, v |-> 0, s |-> str]

U64(n) == [t |-> "u64", valid |-> FALSE, v |-> n, s |-> ""]

ES_TYPE == "talent"

DefaultIndex == "talents"

\* .with_size(1000)
SearchSize == 1000

\* score > 0.9, in tenths
ScoreThreshold == 9

Min(a, b) == IF a < b THEN a ELSE b

Range(s) == {s[i] : i \in 1..Len(s)}

\* s in the order given by rank, the number of elements that come before
\* each position under a strict total order: the element at place k is the
\* one that k - 1 others come before.
SortIdx(s, rank) ==
  [k \in 1..Len(s) |-> s[CHOOSE i \in 1..Len(s) : rank[i] = k - 1]] \o <<>>

\* Mutant of Dedup: every repeated element is removed, adjacent or not.
DedupAll(s) ==
  LET marked == [i \in 1..Len(s) |-> <<s[i], \A j \in 1..i - 1 : s[j] # s[i]>>]
      first == SelectSeq(marked, LAMBDA m : m[2])
  IN  [i \in 1..Len(first) |-> first[i][1]] \o <<>>

\* Vec::dedup: removes consecutive repeated elements
Dedup(s) ==
  LET marked == [i \in 1..Len(s) |-> <<s[i], i = 1 \/ s[i] # s[i - 1]>>]
      first == SelectSeq(marked, LAMBDA m : m[2])
  IN  [i \in 1..Len(first) |-> first[i][1]] \o <<>>

\* vec![..].into_iter().flat_map(|x| x).collect()
RECURSIVE Flatten(_)
Flatten(ss) == IF ss = <<>> THEN <<>> ELSE Head(ss) \o Flatten(Tail(ss))

-----------------------------------------------------------------------------
(* The document *)

Talent(id, accepted, work_roles, work_experience, work_locations, work_authorization, skills, summary, company_ids, batch_starts_at, batch_ends_at, added_to_batch_at, weight, blocked_companies) ==
  [id |-> id, accepted |-> accepted, work_roles |-> work_roles,
   work_experience |-> work_experience, work_locations |-> work_locations,
   work_authorization |-> work_authorization, skills |-> skills,
   summary |-> summary, company_ids |-> company_ids,
   batch_starts_at |-> batch_starts_at, batch_ends_at |-> batch_ends_at,
   added_to_batch_at |-> added_to_batch_at, weight |-> weight,
   blocked_companies |-> blocked_companies]

ArrayFields == {"work_roles", "work_locations", "skills", "summary", "company_ids", "blocked_companies"}

\* The values a document holds under a field name; none for a field it lacks.
FieldValues(doc, f) ==
  IF f \notin DOMAIN doc THEN {}
  ELSE IF f \in ArrayFields THEN Range(doc[f])
  ELSE {doc[f]}

-----------------------------------------------------------------------------
(* Query nodes *)

Term(f, value) == [kind |-> "term", field |-> f, value |-> value]

Terms(f, values) == [kind |-> "terms", field |-> f, values |-> values]

RangeLte(f, bound) ==
  [kind |-> "range", field |-> f, op |-> "lte", bound |-> bound,
   format |-> "dateOptionalTime"]

RangeGte(f, bound) ==
  [kind |-> "range", field |-> f, op |-> "gte", bound |-> bound,
   format |-> "dateOptionalTime"]

Bool(must, should, must_not) ==
  [kind |-> "bool", must |-> must, should |-> should, must_not |-> must_not]

MultiMatch(fields, query) ==
  [kind |-> "multi_match", fields |-> fields, query |-> query,
   type |-> "cross_fields", tie_breaker |-> 0]

\* VectorOfTerms::build_terms: no clause for an empty list of values
build_terms(f, values) ==
  IF values = <<>> THEN <<>> ELSE <<Terms(f, values)>>

\* vec_from_params!: the ordered values of an array parameter
vec_from_params(params, key) == params[key]

\* i32_vec_from_params!: the integer values of a parameter
i32_vec_from_params(params, key) == params[key]

\* Mutant of visibility_filters: the acceptance term is left out.
visibility_filters_unaccepted(epoch, presented_talents) ==
  LET visibility_rules ==
        Bool(<<RangeLte("batch_starts_at", epoch),
               RangeGte("batch_ends_at", epoch)>>, <<>>, <<>>)
  IN  IF presented_talents # <<>>
      THEN LET presented_talents_filters ==
                 Bool(Flatten(<<build_terms("ids", presented_talents)>>),
                      <<>>, <<>>)
           IN  <<Bool(<<>>, <<visibility_rules, presented_talents_filters>>,
                      <<>>)>>
      ELSE <<visibility_rules>>

visibility_filters(epoch, presented_talents) ==
  LET visibility_rules ==
        Bool(<<Term("accepted", TRUE),
               RangeLte("batch_starts_at", epoch),
               RangeGte("batch_ends_at", epoch)>>, <<>>, <<>>)
  IN  IF presented_talents # <<>>
      THEN LET presented_talents_filters ==
                 Bool(Flatten(<<build_terms("ids", presented_talents)>>),
                      <<>>, <<>>)
           IN  <<Bool(<<>>, <<visibility_rules, presented_talents_filters>>,
                      <<>>)>>
      ELSE <<visibility_rules>>

\* Mutant of full_text_search: no test for the empty string.
full_text_search_any_string(params) ==
  IF params.keywords.t = "string"
  THEN Some(MultiMatch(<<"skills", "summary">>, params.keywords.s))
  ELSE None

full_text_search(params) ==
  IF params.keywords.t = "absent" THEN None
  ELSE IF params.keywords.t = "string"
       THEN IF params.keywords.s = "" THEN None
            ELSE Some(MultiMatch(<<"skills", "summary">>, params.keywords.s))
       ELSE None

\* Mutant of search_filters: the exclusion looks at company_ids only.
search_filters_owning_only(params, epoch) ==
  LET company_id == i32_vec_from_params(params, "company_id")
  IN  Bool(Flatten(<<
             build_terms("work_roles", vec_from_params(params, "work_roles")),
             build_terms("work_experience",
                         vec_from_params(params, "work_experience")),
             build_terms("work_authorization",
                         vec_from_params(params, "work_authorization")),
             build_terms("work_locations",
                         vec_from_params(params, "work_locations")),
             build_terms("id", vec_from_params(params, "ids")),
             IF full_text_search(params).some
               THEN <<full_text_search(params).v>> ELSE <<>>,
             visibility_filters(epoch,
               i32_vec_from_params(params, "presented_talents"))>>),
           <<>>,
           Flatten(<<build_terms("company_ids", company_id)>>))

\* Mutant of search_filters: no clause for work_locations.
search_filters_no_locations(params, epoch) ==
  LET company_id == i32_vec_from_params(params, "company_id")
  IN  Bool(Flatten(<<
             build_terms("work_roles", vec_from_params(params, "work_roles")),
             build_terms("work_experience",
                         vec_from_params(params, "work_experience")),
             build_terms("work_authorization",
                         vec_from_params(params, "work_authorization")),
             build_terms("id", vec_from_params(params, "ids")),
             IF full_text_search(params).some
               THEN <<full_text_search(params).v>> ELSE <<>>,
             visibility_filters(epoch,
               i32_vec_from_params(params, "presented_talents"))>>),
           <<>>,
           Flatten(<<build_terms("company_ids", company_id),
                     build_terms("blocked_companies", company_id)>>))

search_filters(params, epoch) ==
  LET company_id == i32_vec_from_params(params, "company_id")
  IN  Bool(Flatten(<<
             build_terms("work_roles", vec_from_params(params, "work_roles")),
             build_terms("work_experience",
                         vec_from_params(params, "work_experience")),
             build_terms("work_authorization",
                         vec_from_params(params, "work_authorization")),
             build_terms("work_locations",
                         vec_from_params(params, "work_locations")),
             build_terms("id", vec_from_params(params, "ids")),
             IF full_text_search(params).some
               THEN <<full_text_search(params).v>> ELSE <<>>,
             visibility_filters(epoch,
               i32_vec_from_params(params, "presented_talents"))>>),
           <<>>,
           Flatten(<<build_terms("company_ids", company_id),
                     build_terms("blocked_companies", company_id)>>))

\* Mutant of sorting_criteria: added_to_batch_at before weight.
sorting_criteria_added_first ==
  <<[field |-> "batch_starts_at", order |-> "desc"],
    [field |-> "added_to_batch_at", order |-> "desc"],
    [field |-> "weight", order |-> "desc"]>>

sorting_criteria ==
  <<[field |-> "batch_starts_at", order |-> "desc"],
    [field |-> "weight", order |-> "desc"],
    [field |-> "added_to_batch_at", order |-> "desc"]>>

-----------------------------------------------------------------------------
(* Results *)

Ok(value) == [kind |-> "ok", value |-> value, error |-> ""]

Err(error) == [kind |-> "err", value |-> <<>>, error |-> error]

\* Option::unwrap on None
Panic == [kind |-> "panic", value |-> <<>>, error |-> "unwrap"]

Call(name, request, response) ==
  [call |-> name, request |-> request, response |-> response]

-----------------------------------------------------------------------------
(* The search engine, as the program's calls observe it *)

Scores == {8, 9, 10}

Skills == {<<"Rust">>, <<"Rust", "HTML5">>}

\* The terms the index analyzer (lowercase, word delimiter, 2..20-grams)
\* keeps of a word, among those the requests of the model ask for.
IndexTerms(word) ==
  CASE word = "HTML5" -> {"html5", "html", "tml5"}
    [] word = "Rust"  -> {"rust", "rus", "ust"}
    [] OTHER          -> {}

\* The terms of a query string under the search analyzer (no n-grams).
SearchTerms(str) ==
  CASE str = "html" -> {"html"}
    [] str = "Rust" -> {"rust"}
    [] OTHER        -> {}

RECURSIVE EsValid(_)
\* A range over a date field needs a bound in the field's format.
EsValid(q) ==
  CASE q.kind = "range" -> q.bound.valid
    [] q.kind = "bool"  ->
         /\ \A i \in 1..Len(q.must) : EsValid(q.must[i])
         /\ \A i \in 1..Len(q.should) : EsValid(q.should[i])
         /\ \A i \in 1..Len(q.must_not) : EsValid(q.must_not[i])
    [] OTHER -> TRUE

RECURSIVE EsMatches(_, _)
EsMatches(q, doc) ==
  CASE q.kind = "term"  -> q.value \in FieldValues(doc, q.field)
    [] q.kind = "terms" ->
         \E i \in 1..Len(q.values) : q.values[i] \in FieldValues(doc, q.field)
    [] q.kind = "range" ->
         \E x \in FieldValues(doc, q.field) :
            IF q.op = "lte" THEN x <= q.bound.v ELSE x >= q.bound.v
    [] q.kind = "multi_match" ->
         \E i \in 1..Len(q.fields) : \E word \in FieldValues(doc, q.fields[i]) :
            SearchTerms(q.query) \cap IndexTerms(word) # {}
    [] q.kind = "bool" ->
         /\ \A i \in 1..Len(q.must) : EsMatches(q.must[i], doc)
         /\ \A i \in 1..Len(q.must_not) : ~EsMatches(q.must_not[i], doc)
         /\ \/ q.should = <<>>
            \/ q.must # <<>>
            \/ \E i \in 1..Len(q.should) : EsMatches(q.should[i], doc)

RECURSIVE SortBefore(_, _, _)
\* a strictly before b under the sort fields
SortBefore(a, b, sort) ==
  IF sort = <<>> THEN FALSE
  ELSE LET f == Head(sort).field
       IN  IF a[f] # b[f]
           THEN IF Head(sort).order = "desc" THEN a[f] > b[f] ELSE a[f] < b[f]
           ELSE SortBefore(a, b, Tail(sort))

\* The hits of a request on the documents ds: with a sort, in its order and
\* unscored; without one, by descending score.  Ties keep the documents'
\* order in the index.
EsHits(ds, request, score) ==
  LET found == SelectSeq(ds, LAMBDA doc : EsMatches(request.query, doc))
      Rel(doc) == score[doc.skills]
      Before(i, j) ==
        IF request.sort.some
        THEN \/ SortBefore(found[i], found[j], request.sort.v)
             \/ ~SortBefore(found[j], found[i], request.sort.v) /\ i < j
        ELSE \/ Rel(found[i]) > Rel(found[j])
             \/ Rel(found[i]) = Rel(found[j]) /\ i < j
      rank == [i \in 1..Len(found) |->
                 Cardinality({j \in 1..Len(found) : Before(j, i)})] \o <<>>
      ordered == SortIdx(found, rank)
      page == SubSeq(ordered, 1, Min(Len(ordered), request.size))
  IN  [i \in 1..Len(page) |->
         [score  |-> IF request.sort.some THEN None ELSE Some(Rel(page[i])),
          source |-> Some(page[i])]] \o <<>>

Faults == {"none", "transport", "no_source"}

\* search_query().send(): the response to a request
EsSearch(present, ds, request, score, fault) ==
  IF fault = "transport" THEN Err("transport")
  ELSE IF request.indexes # <<DefaultIndex>> \/ ~present
       THEN Err("index_missing")
  ELSE IF ~EsValid(request.query) THEN Err("parse")
  ELSE LET hits == EsHits(ds, request, score)
       IN  IF fault = "no_source"
           THEN Ok([i \in 1..Len(hits) |-> [hits[i] EXCEPT !.source = None]])
           ELSE Ok(hits)

\* index(..).with_doc(..).with_id(..).send(): a write under the document's id
\* replaces the document of that id.
EsIndex(ds, doc) == SelectSeq(ds, LAMBDA d : d.id # doc.id) \o <<doc>>

Scorings == [Skills -> Scores]

FixedScoring == [sk \in Skills |-> 10]

\* The scores the engine may give: they matter to a request without sort only.
ScoringsFor(params) ==
  IF params.keywords.t = "string" /\ params.keywords.s # ""
  THEN Scorings ELSE {FixedScoring}

\* No operation is returning.
NoRet ==
  [op |-> "none", arg |-> <<>>, fault |-> "none", score |-> FixedScoring,
   calls |-> <<>>, result |-> Ok(<<>>)]

-----------------------------------------------------------------------------
(* Talent::search *)

\* Mutant of resolve_epoch: the epoch parameter is not read.
resolve_epoch_now(params, time) == DateString(time)

\* params.find(&["epoch"]), String::from_value(..).unwrap_or(now)
resolve_epoch(params, time) ==
  IF params.epoch.t = "string" THEN params.epoch ELSE DateString(time)

resolve_index(params, default_index) ==
  IF params.index.t = "string" THEN <<params.index.s>> ELSE <<default_index>>

\* Mutant of keywords_present: any keywords parameter counts.
keywords_present_any_value(params) == params.keywords.t # "absent"

keywords_present(params) ==
  IF params.keywords.t = "absent" THEN FALSE
  ELSE IF params.keywords.t = "string" THEN params.keywords.s # ""
       ELSE FALSE

search_request(params, default_index, time) ==
  LET epoch == resolve_epoch(params, time)
      index == resolve_index(params, default_index)
  IN  IF keywords_present(params)
      THEN [indexes |-> index, query |-> search_filters(params, epoch),
            sort |-> None, size |-> SearchSize]
      ELSE [indexes |-> index, query |-> search_filters(params, epoch),
            sort |-> Some(sorting_criteria), size |-> SearchSize]

\* Mutant of keep_hit: the threshold itself passes (score >= 0.9).
keep_hit_at_threshold(hit) ==
  IF hit.score.some THEN hit.score.v >= ScoreThreshold ELSE TRUE

\* .filter(|hit| match hit.score { Some(score) => score > 0.9, None => true })
keep_hit(hit) == IF hit.score.some THEN hit.score.v > ScoreThreshold ELSE TRUE

\* Mutant of search_results: the engine's error is handed to the caller.
search_results_try(result) ==
  IF result.kind = "ok"
  THEN LET kept == SelectSeq(result.value, keep_hit)
       IN  IF \E i \in 1..Len(kept) : ~kept[i].source.some
           THEN Panic
           ELSE Ok(Dedup([i \in 1..Len(kept) |-> kept[i].source.v.id]))
  ELSE result

\* match result { Ok(result) => .., Err(err) => vec![] }
search_results(result) ==
  IF result.kind = "ok"
  THEN LET kept == SelectSeq(result.value, keep_hit)
       IN  IF \E i \in 1..Len(kept) : ~kept[i].source.some
           THEN Panic
           ELSE Ok(Dedup([i \in 1..Len(kept) |-> kept[i].source.v.id]))
  ELSE Ok(<<>>)

\* What Talent::search returns for params in a state of the engine.
search(present, ds, score, time, params, fault) ==
  LET request == search_request(params, DefaultIndex, time)
      result  == EsSearch(present, ds, request, score, fault)
  IN  [op |-> "search", arg |-> params, fault |-> fault, score |-> score,
       calls |-> <<Call("search", request, result)>>,
       result |-> search_results(result)]

Search(params, fault, score) ==
  /\ ret = NoRet
  /\ ret' = search(exists, docs, score, now, params, fault)
  /\ UNCHANGED <<exists, docs, now, pc>>

-----------------------------------------------------------------------------
(* Talent::index *)

Index(talent, fault) ==
  LET result == IF fault = "transport" THEN Err("transport")
                ELSE IF ~exists THEN Err("index_missing")
                ELSE Ok(<<>>)
  IN  /\ ret = NoRet
      /\ docs' = IF result.kind = "ok" THEN EsIndex(docs, talent) ELSE docs
      /\ ret' = [op |-> "index", arg |-> talent, fault |-> fault,
                 score |-> FixedScoring,
                 calls |-> <<Call("index", talent, result)>>,
                 result |-> result]
      /\ UNCHANGED <<exists, now, pc>>

-----------------------------------------------------------------------------
(* Talent::reset_index: two calls, other requests may come in between *)

Idle == [at |-> "idle", deleted |-> Ok(<<>>)]

\* es.delete_index(index);
ResetDelete(fault) ==
  /\ ret = NoRet
  /\ pc.at = "idle"
  /\ LET result == IF fault = "transport" THEN Err("transport")
                   ELSE IF ~exists THEN Err("index_missing")
                   ELSE Ok(<<>>)
     IN  /\ exists' = IF result.kind = "ok" THEN FALSE ELSE exists
         /\ docs' = IF result.kind = "ok" THEN <<>> ELSE docs
         /\ pc' = [at |-> "deleted", deleted |-> result]
  /\ UNCHANGED <<now, ret>>

\* Mutant of reset_index_result: the deletion's error is returned (try!).
reset_index_result_try(deleted, created) ==
  IF deleted.kind = "err" THEN deleted ELSE created

\* The value of reset_index: that of the mapping operation.
reset_index_result(deleted, created) == created

\* MappingOperation::new(..).with_mapping(..).with_settings(..).send()
ResetCreate(fault) ==
  /\ ret = NoRet
  /\ pc.at = "deleted"
  /\ LET result == IF fault = "transport" THEN Err("transport")
                   ELSE IF exists THEN Err("index_already_exists")
                   ELSE Ok(<<>>)
     IN  /\ exists' = IF result.kind = "ok" THEN TRUE ELSE exists
         /\ docs' = IF result.kind = "ok" THEN <<>> ELSE docs
         /\ ret' = [op |-> "reset_index", arg |-> DefaultIndex,
                    fault |-> fault, score |-> FixedScoring,
                    calls |-> <<Call("delete_index", DefaultIndex, pc.deleted),
                                Call("create", DefaultIndex, result)>>,
                    result |-> reset_index_result(pc.deleted, result)]
  /\ pc' = Idle
  /\ UNCHANGED now

\* UTC::now() moves on
Tick ==
  /\ ret = NoRet
  /\ now < MaxTime
  /\ now' = now + 1
  /\ UNCHANGED <<exists, docs, pc, ret>>

\* The operation returns: its caller takes the value.
Return ==
  /\ ret # NoRet
  /\ ret' = NoRet
  /\ UNCHANGED <<exists, docs, now, pc>>

-----------------------------------------------------------------------------
(* Inputs *)

NoParams ==
  [epoch |-> Absent, index |-> Absent, keywords |-> Absent,
   work_roles |-> <<>>, work_experience |-> <<>>, work_authorization |-> <<>>,
   work_locations |-> <<>>, ids |-> <<>>, company_id |-> <<>>,
   presented_talents |-> <<>>]

\* Talent 1 of the tests' fixture, its dates scaled to the model's clock
Talent1 == Talent(1, TRUE, <<>>, "1..2", <<"Berlin">>, "yes", <<"Rust", "HTML5">>, <<"Rust">>, <<>>, 1, 2, 1, 0, <<>>)

NoScript == [at |-> "off"]

-----------------------------------------------------------------------------
(* The service: any client may write, search or reset at any time *)

Talents ==
  {[Talent1 EXCEPT !.id = id, !.skills = skills] :
     id \in 1..MaxId, skills \in Skills}

Keywords == {Absent, String(""), String("html"), String("Rust"), U64(7)}

Requests ==
  {[NoParams EXCEPT !.keywords = keywords, !.index = index, !.epoch = epoch] :
     keywords \in Keywords,
     index \in {Absent, String("lololol")},
     epoch \in {Absent, DateString(2), String("yesterday")}}

Init ==
  /\ exists = FALSE
  /\ docs = <<>>
  /\ now = 1
  /\ pc = Idle
  /\ ret = NoRet
  /\ script = NoScript

Next ==
  \/ \E talent \in Talents, fault \in {"none", "transport"} :
       Index(talent, fault) /\ UNCHANGED script
  \/ \E params \in Requests : \E fault \in Faults, score \in ScoringsFor(params) :
       Search(params, fault, score) /\ UNCHANGED script
  \/ \E fault \in {"none", "transport"} :
       ResetDelete(fault) /\ UNCHANGED script
  \/ \E fault \in {"none", "transport"} :
       ResetCreate(fault) /\ UNCHANGED script
  \/ Tick /\ UNCHANGED script
  \/ Return /\ UNCHANGED script

Spec == Init /\ [][Next]_vars

-----------------------------------------------------------------------------
(* Visibility and company exclusion: an index that was reset, one talent   *)
(* whose visibility and companies vary, beside talents of the fixture      *)

InitReset ==
  /\ exists = TRUE
  /\ docs = <<>>
  /\ now = 1
  /\ pc = Idle
  /\ ret = NoRet
  /\ script = NoScript

Windows == {<<1, 3>>, <<2, 2>>}

TalentsVis ==
  {[Talent1 EXCEPT !.accepted = accepted, !.batch_starts_at = window[1],
                   !.batch_ends_at = window[2], !.company_ids = company_ids,
                   !.blocked_companies = blocked_companies] :
     accepted \in BOOLEAN, window \in Windows,
     company_ids \in {<<>>, <<6>>}, blocked_companies \in {<<>>, <<6, 7>>}}
  \cup {[Talent1 EXCEPT !.id = id] : id \in 2..MaxId}

RequestsVis ==
  {[NoParams EXCEPT !.presented_talents = presented_talents, !.epoch = epoch,
                    !.company_id = company_id, !.keywords = keywords,
                    !.ids = ids] :
     presented_talents \in {<<>>, <<1>>, <<2, 1>>},
     epoch \in {Absent, DateString(2)},
     company_id \in {<<>>, <<6>>},
     keywords \in {Absent, String("Rust")},
     ids \in {<<>>, <<1>>}}

NextVis ==
  \/ \E talent \in TalentsVis : Index(talent, "none") /\ UNCHANGED script
  \/ \E params \in RequestsVis : \E fault \in {"none", "transport"}, score \in ScoringsFor(params) :
       Search(params, fault, score) /\ UNCHANGED script
  \/ Tick /\ UNCHANGED script
  \/ Return /\ UNCHANGED script

SpecVis == InitReset /\ [][NextVis]_vars

-----------------------------------------------------------------------------
(* Term filters: one talent whose filterable fields vary, beside talents   *)
(* of the fixture                                                          *)

TalentsFilters ==
  {[Talent1 EXCEPT !.work_roles = work_roles,
                   !.work_experience = work_experience,
                   !.work_authorization = work_authorization,
                   !.work_locations = work_locations] :
     work_roles \in {<<>>, <<"DevOps">>, <<"Fullstack", "DevOps">>},
     work_experience \in {"1..2", "8+"},
     work_authorization \in {"yes", "no"},
     work_locations \in {<<"Berlin">>, <<"Rome", "Berlin">>}}
  \cup {[Talent1 EXCEPT !.id = id, !.work_roles = <<"Fullstack">>] :
          id \in 2..MaxId}

RequestsFilters ==
  {[NoParams EXCEPT !.work_roles = work_roles,
                    !.work_experience = work_experience,
                    !.work_authorization = work_authorization,
                    !.work_locations = work_locations, !.ids = ids] :
     work_roles \in {<<>>, <<"Fullstack">>, <<"Fullstack", "DevOps">>},
     work_experience \in {<<>>, <<"8+">>},
     work_authorization \in {<<>>, <<"yes">>},
     work_locations \in {<<>>, <<"Rome">>, <<"Rome", "Berlin">>},
     ids \in {<<>>, <<1>>, <<2, 3>>}}

NextFilters ==
  \/ \E talent \in TalentsFilters : Index(talent, "none") /\ UNCHANGED script
  \/ \E params \in RequestsFilters, fault \in {"none", "transport"} :
       Search(params, fault, FixedScoring) /\ UNCHANGED script
  \/ Tick /\ UNCHANGED script
  \/ Return /\ UNCHANGED script

SpecFilters == InitReset /\ [][NextFilters]_vars

-----------------------------------------------------------------------------
(* Ordering: talents that differ in the sort keys, and an index that holds *)
(* one talent more than a search asks for                                  *)

\* <<batch_starts_at, weight, added_to_batch_at>>
SortKeys == {<<1, 0, 1>>, <<1, 0, 2>>, <<1, 6, 1>>, <<2, -5, 1>>}

TalentsSort ==
  {[Talent1 EXCEPT !.id = id, !.batch_starts_at = key[1], !.weight = key[2],
                   !.added_to_batch_at = key[3], !.batch_ends_at = MaxTime] :
     id \in 1..MaxId + 1, key \in SortKeys}

\* A populated index: the same talent under SearchSize + 1 ids
LargeIndex == [i \in 1..SearchSize + 1 |-> [Talent1 EXCEPT !.id = i]]

InitSort ==
  /\ exists = TRUE
  /\ docs \in {<<>>, LargeIndex}
  /\ now = 1
  /\ pc = Idle
  /\ ret = NoRet
  /\ script = NoScript

NextSort ==
  \/ \E talent \in TalentsSort :
       Len(docs) <= MaxId + 1 /\ Index(talent, "none") /\ UNCHANGED script
  \/ \E fault \in {"none", "transport"} :
       Search(NoParams, fault, FixedScoring) /\ UNCHANGED script
  \/ Tick /\ UNCHANGED script
  \/ Return /\ UNCHANGED script

SpecSort == InitSort /\ [][NextSort]_vars

-----------------------------------------------------------------------------
(* A caller that resets the index, writes a fixture and searches, twice,   *)
(* as the tests do once                                                    *)

TalentsRounds ==
  {Talent1, [Talent1 EXCEPT !.weight = 6, !.skills = <<"Rust">>]}
  \cup {[Talent1 EXCEPT !.id = id, !.batch_ends_at = MaxTime] : id \in 2..MaxId}

RECURSIVE SeqsUpTo(_, _)
\* The sequences over S of length n at most
SeqsUpTo(S, n) ==
  IF n = 0 THEN {<<>>}
  ELSE SeqsUpTo(S, n - 1)
         \cup {Append(f, x) : f \in {g \in SeqsUpTo(S, n - 1) : Len(g) = n - 1}, x \in S}

Fixtures == SeqsUpTo(TalentsRounds, MaxFixture)

RequestsRounds ==
  {NoParams, [NoParams EXCEPT !.epoch = DateString(2)],
   [NoParams EXCEPT !.keywords = String("Rust")]}

ScoringsRounds ==
  {FixedScoring, [FixedScoring EXCEPT ![<<"Rust">>] = 9]}

InitRounds ==
  /\ exists = FALSE
  /\ docs = <<>>
  /\ now = 1
  /\ pc = Idle
  /\ ret = NoRet
  /\ \E fixture \in Fixtures, params \in RequestsRounds :
     \E score \in ScoringsFor(params) \cap ScoringsRounds :
        script = [at |-> "reset", k |-> 1, fixture |-> fixture,
                  params |-> params, score |-> score, runs |-> <<>>]

\* reset_index, in its two calls
RoundDelete ==
  /\ script.at = "reset"
  /\ ResetDelete("none")
  /\ script' = [script EXCEPT !.at = "create"]

RoundCreate ==
  /\ script.at = "create"
  /\ ResetCreate("none")
  /\ script' = [script EXCEPT !.at = "index", !.k = 1]

\* populate_index: the talents of the fixture, one write each, in order
RoundIndex ==
  /\ script.at = "index" /\ script.k <= Len(script.fixture)
  /\ Index(script.fixture[script.k], "none")
  /\ script' = [script EXCEPT !.k = @ + 1]

RoundSearch ==
  /\ script.at = "index" /\ script.k > Len(script.fixture)
  /\ Search(script.params, "none", script.score)
  /\ script' = [script EXCEPT !.at = "search"]

\* The caller takes what the operation returned; after a search it goes on
\* to the second round, or is done.
RoundReturn ==
  /\ Return
  /\ script' =
       IF script.at = "search"
       THEN [script EXCEPT
               !.runs = Append(@, [result |-> ret.result, time |-> now]),
               !.at = IF Len(script.runs) = 0 THEN "reset" ELSE "done"]
       ELSE script

NextRounds ==
  \/ RoundDelete
  \/ RoundCreate
  \/ RoundIndex
  \/ RoundSearch
  \/ RoundReturn
  \/ Tick /\ UNCHANGED script

SpecRounds == InitRounds /\ [][NextRounds]_vars

-----------------------------------------------------------------------------
(* Searches over several indexes: the index parameter is passed to the     *)
(* engine as it is, so it may name more than one index, and then the       *)
(* response may hold the same id more than once, in any places             *)

RequestsHits ==
  {[NoParams EXCEPT !.index = String("talents,archive"), !.keywords = keywords] :
     keywords \in {Absent, String("Rust")}}

\* The hits the engine may send for params: scored when the request has no
\* sort, unscored when it has one.
HitsFor(params) ==
  {[score |-> score, source |-> Some([Talent1 EXCEPT !.id = id])] :
     id \in 1..MaxId,
     score \in IF keywords_present(params)
                THEN {Some(ScoreThreshold), Some(ScoreThreshold + 1)}
                ELSE {None}}

\* Talent::search, the engine answering its request with the hits given
SearchAnswered(params, hits) ==
  LET request == search_request(params, DefaultIndex, now)
  IN  /\ ret = NoRet
      /\ ret' = [op |-> "search", arg |-> params, fault |-> "none",
                 score |-> FixedScoring,
                 calls |-> <<Call("search", request, Ok(hits))>>,
                 result |-> search_results(Ok(hits))]
      /\ UNCHANGED <<exists, docs, now, pc>>

NextHits ==
  \/ \E params \in RequestsHits : \E hits \in SeqsUpTo(HitsFor(params), MaxHits) :
       SearchAnswered(params, hits) /\ UNCHANGED script
  \/ Tick /\ UNCHANGED script
  \/ Return /\ UNCHANGED script

SpecHits == InitReset /\ [][NextHits]_vars

-----------------------------------------------------------------------------
(* Properties of the service *)

Searched == ret.op = "search"

Response == ret.calls[1].response

Request == ret.calls[1].request

RECURSIVE HasMultiMatch(_)
HasMultiMatch(q) ==
  CASE q.kind = "multi_match" -> TRUE
    [] q.kind = "bool" ->
         \/ \E i \in 1..Len(q.must) : HasMultiMatch(q.must[i])
         \/ \E i \in 1..Len(q.should) : HasMultiMatch(q.should[i])
         \/ \E i \in 1..Len(q.must_not) : HasMultiMatch(q.must_not[i])
    [] OTHER -> FALSE

\* The epoch of the search that is returning: the parameter, else the clock.
Epoch == IF ret.arg.epoch.t = "string" THEN ret.arg.epoch.v ELSE now

Returned == Range(ret.result.value)

Standard(d) ==
  d.accepted /\ d.batch_starts_at <= Epoch /\ d.batch_ends_at >= Epoch

Categories ==
  {<<"work_roles", "work_roles">>, <<"work_experience", "work_experience">>,
   <<"work_authorization", "work_authorization">>,
   <<"work_locations", "work_locations">>, <<"ids", "id">>}

\* d holds, in each category the request names, one of the values it names.
SatisfiesFilters(d, p) ==
  \A c \in Categories :
     p[c[1]] = <<>> \/ Range(p[c[1]]) \cap FieldValues(d, c[2]) # {}

\* d matches the keywords of the request, if any, with a score above 0.9.
SatisfiesKeywords(d, p, score) ==
  (p.keywords.t = "string" /\ p.keywords.s # "") =>
     /\ \E word \in Range(d.skills) \cup Range(d.summary) :
           SearchTerms(p.keywords.s) \cap IndexTerms(word) # {}
     /\ score[d.skills] > 9

CompanyHit(d, p) ==
  Range(p.company_id)
    \cap (Range(d.company_ids) \cup Range(d.blocked_companies)) # {}

\* C1: every id a search returns is that of an indexed talent that is in
\* presented_talents or is accepted with batch_starts_at <= epoch <=
\* batch_ends_at; and the window is inclusive: with no other filter, an
\* accepted talent whose window contains the epoch, its ends included, is
\* returned.
C1_Visibility ==
  (Searched /\ ret.result.kind = "ok") =>
    /\ \A id \in Returned : \E d \in Range(docs) :
          /\ d.id = id
          /\ d.id \in Range(ret.arg.presented_talents) \/ Standard(d)
    /\ ( /\ Response.kind = "ok" /\ ret.arg.keywords = Absent
         /\ ret.arg.ids = <<>> /\ ret.arg.company_id = <<>> ) =>
          \A d \in Range(docs) : Standard(d) => d.id \in Returned

\* C1 witness: a search without presented_talents returned a talent whose
\* window starts and ends exactly at the epoch, and not an unaccepted one.
C1_Witness ==
  /\ Searched /\ ret.result.kind = "ok" /\ ret.arg.presented_talents = <<>>
  /\ \E d \in Range(docs) :
        /\ d.batch_starts_at = Epoch /\ d.batch_ends_at = Epoch
        /\ d.id \in Returned
  /\ Len(docs) = 2

\* C1 witness of the exclusion: an indexed talent that is not accepted is
\* left out of a result that holds another talent.
C1_WitnessExcluded ==
  /\ Searched /\ ret.result.kind = "ok" /\ ret.arg.presented_talents = <<>>
  /\ \E d \in Range(docs) : ~d.accepted /\ d.id \notin Returned
  /\ Returned # {}

\* C2: a talent whose id is in presented_talents is returned whenever it
\* satisfies the other filters of the request and no company exclusion
\* hits it, whatever its accepted flag and its batch window.
C2_PresentedBypass ==
  (Searched /\ Response.kind = "ok" /\ ret.result.kind = "ok") =>
    \A d \in Range(docs) :
       ( /\ d.id \in Range(ret.arg.presented_talents)
         /\ SatisfiesFilters(d, ret.arg)
         /\ SatisfiesKeywords(d, ret.arg, ret.score)
         /\ ~CompanyHit(d, ret.arg) ) => d.id \in Returned

\* C3: the query matches a talent only if, in every category the request
\* names, the talent holds one of the values named: the ids returned are
\* those of the visible talents that satisfy every named category, any one
\* value of a category sufficing.
C3_Categories ==
  (Searched /\ Response.kind = "ok" /\ ret.result.kind = "ok") =>
    /\ \A d \in Range(docs) :
          EsMatches(Request.query, d) => SatisfiesFilters(d, ret.arg)
    /\ ( /\ ret.arg.keywords = Absent /\ ret.arg.company_id = <<>>
         /\ ret.arg.presented_talents = <<>> ) =>
          Returned = {d.id : d \in {x \in Range(docs) :
                                      Standard(x) /\ SatisfiesFilters(x, ret.arg)}}

\* C3 witness: two role values return the talents holding either; the same
\* request with a location returns fewer.
C3_Witness ==
  /\ Searched /\ ret.result.kind = "ok"
  /\ ret.arg.work_roles = <<"Fullstack", "DevOps">>
  /\ ret.arg.work_locations = <<"Rome">>
  /\ ret.arg.ids = <<>> /\ ret.arg.work_experience = <<>>
  /\ Cardinality(Returned) = 1
  /\ Len(search(exists, docs, ret.score, now,
                [ret.arg EXCEPT !.work_locations = <<>>],
                ret.fault).result.value) = 2
  /\ \E d \in Range(docs) : d.work_roles = <<"DevOps">> /\ d.id \in Returned

DocOf(id) == CHOOSE d \in Range(docs) : d.id = id

\* a is not after b: batch_starts_at, then weight, then added_to_batch_at,
\* each descending.
NotAfter(a, b) ==
  \/ a.batch_starts_at > b.batch_starts_at
  \/ /\ a.batch_starts_at = b.batch_starts_at
     /\ \/ a.weight > b.weight
        \/ a.weight = b.weight /\ a.added_to_batch_at >= b.added_to_batch_at

VisibleNow == {d \in Range(docs) : Standard(d)}

\* The ids are distinct ids of visible talents, in the order of the keys.
SortedVisible(ids) ==
  /\ Range(ids) \subseteq {d.id : d \in VisibleNow}
  /\ Cardinality(Range(ids)) = Len(ids)
  /\ \A i \in 1..Len(ids) - 1 : NotAfter(DocOf(ids[i]), DocOf(ids[i + 1]))

AnsweredNoParams ==
  /\ Searched /\ ret.arg = NoParams
  /\ Response.kind = "ok" /\ ret.result.kind = "ok"

\* C4 as stated: a search with an empty parameter map sends a query with no
\* clause but the visibility node and returns the ids of all the talents
\* that satisfy the standard rule at the current time, by batch_starts_at,
\* then weight, then added_to_batch_at, each descending.
C4_AllVisibleSorted ==
  AnsweredNoParams =>
    /\ Len(Request.query.must) = 1 /\ Request.query.must_not = <<>>
    /\ SortedVisible(ret.result.value)
    /\ Len(ret.result.value) = Cardinality(VisibleNow)

\* C4 amended: the same, the result being cut to the first 1000 of those
\* talents in that order when more than 1000 satisfy the rule.
C4_First1000VisibleSorted ==
  AnsweredNoParams =>
    /\ Len(Request.query.must) = 1 /\ Request.query.must_not = <<>>
    /\ SortedVisible(ret.result.value)
    /\ Len(ret.result.value) = Min(Cardinality(VisibleNow), 1000)
    /\ \A d \in VisibleNow :
          d.id \notin Returned =>
             NotAfter(DocOf(ret.result.value[Len(ret.result.value)]), d)

\* C4 witness: three visible talents returned in an order that each of the
\* three keys decides once, weight before added_to_batch_at.
C4_Witness ==
  /\ AnsweredNoParams /\ Len(ret.result.value) = 3
  /\ LET a == DocOf(ret.result.value[1])
         b == DocOf(ret.result.value[2])
         c == DocOf(ret.result.value[3])
     IN  /\ a.batch_starts_at > b.batch_starts_at /\ a.weight < b.weight
         /\ b.weight > c.weight /\ b.added_to_batch_at < c.added_to_batch_at
         /\ docs = <<c, b, a>>

\* C4 witness of the cut: more than 1000 visible talents, 1000 ids returned.
C4_WitnessCut ==
  /\ AnsweredNoParams
  /\ Cardinality(VisibleNow) > 1000 /\ Len(ret.result.value) = 1000

\* The documents with their company fields emptied.
WithoutCompanies(ds) ==
  [i \in 1..Len(ds) |->
     [ds[i] EXCEPT !.company_ids = <<>>, !.blocked_companies = <<>>]]

\* C5: no id a search with company_id returns is that of a talent whose
\* company_ids or blocked_companies holds that company; without company_id
\* the query has no exclusion clause and the result is the one the same
\* talents would give with no companies at all.
C5_CompanyExclusion ==
  (Searched /\ ret.result.kind = "ok") =>
    /\ \A d \in Range(docs) : d.id \in Returned => ~CompanyHit(d, ret.arg)
    /\ ret.arg.company_id = <<>> =>
         /\ Request.query.must_not = <<>>
         /\ ret.result = search(exists, WithoutCompanies(docs), ret.score,
                                now, ret.arg, ret.fault).result

\* C5 witness: a search with company_id, keywords and presented_talents,
\* over a talent that blocked the company and is otherwise visible, returned
\* the other talent only.
C5_Witness ==
  /\ Searched /\ ret.result.kind = "ok"
  /\ ret.arg.company_id = <<6>> /\ ret.arg.keywords = String("Rust")
  /\ ret.arg.presented_talents = <<2, 1>>
  /\ \E d \in Range(docs) :
        /\ d.company_ids = <<>> /\ d.blocked_companies = <<6, 7>>
        /\ Standard(d) /\ d.id \notin Returned
  /\ Returned # {}

\* C6: of the hits of a successful search, the ids returned are those of
\* the hits that carry no score or a score above 0.9: a hit is dropped if
\* and only if its score is present and at or below 0.9.  With the sort
\* (no keywords) no hit carries a score and every hit is returned.
C6_Threshold ==
  (Searched /\ Response.kind = "ok" /\ ret.result.kind = "ok") =>
    LET hits == Response.value
        above == {i \in 1..Len(hits) :
                    ~(hits[i].score.some /\ hits[i].score.v <= 9)}
    IN  /\ Range(ret.result.value) = {hits[i].source.v.id : i \in above}
        /\ Len(ret.result.value) = Cardinality(above)
        /\ Request.sort.some => above = 1..Len(hits)

\* C6 witness: a response with a hit scored exactly 0.9, dropped, and a hit
\* scored above, returned.
C6_Witness ==
  /\ Searched /\ Response.kind = "ok" /\ ret.result.kind = "ok"
  /\ Len(Response.value) = 2
  /\ Response.value[1].score = Some(10)
  /\ Response.value[2].score = Some(9)
  /\ ret.result.value = <<Response.value[1].source.v.id>>

\* C7: Talent::search returns normally whatever the engine answers, and
\* returns the empty sequence when the engine answers with an error.
C7_NeverFails ==
  Searched =>
    /\ ret.result.kind = "ok"
    /\ Response.kind = "err" => ret.result.value = <<>>

\* C8 as stated: whenever a call of reset_index (the deletion or the
\* creation) fails, reset_index returns that call's error; a failed write
\* of Talent::index returns the engine's error.
C8_EveryFailureSurfaces ==
  /\ ret.op = "reset_index" =>
       \A i \in 1..Len(ret.calls) :
          ret.calls[i].response.kind = "err" =>
             ret.result = ret.calls[i].response
  /\ ret.op = "index" =>
       (ret.calls[1].response.kind = "err" => ret.result = ret.calls[1].response)

\* C8 amended: reset_index returns what the mapping creation returns, its
\* error unchanged when it fails, whatever the index deletion answered (the
\* deletion's error is discarded); a failed write of Talent::index returns
\* the engine's error.
C8_CreationFailureSurfaces ==
  /\ ret.op = "reset_index" =>
       /\ ret.calls[1].call = "delete_index" /\ ret.calls[2].call = "create"
       /\ ret.result = ret.calls[2].response
  /\ ret.op = "index" =>
       (ret.calls[1].response.kind = "err" => ret.result = ret.calls[1].response)

\* C8 witness: the deletion failed, the creation succeeded, and reset_index
\* returned success.
C8_Witness ==
  /\ ret.op = "reset_index"
  /\ ret.calls[1].response.kind = "err"
  /\ ret.calls[2].response.kind = "ok"
  /\ ret.result.kind = "ok"

\* C9 as stated: after reset and writing the fixture twice over, the search
\* of the second round returns the sequence the search of the first round
\* returned.
C9_SameResultBothRounds ==
  script.at = "done" => script.runs[2].result = script.runs[1].result

\* C9 amended: it does when both searches run at the same epoch, given by
\* the epoch parameter or, without it, by an unchanged current time.
C9_SameResultAtSameEpoch ==
  ( /\ script.at = "done"
    /\ \/ script.params.epoch.t = "string"
       \/ script.runs[1].time = script.runs[2].time )
  => script.runs[2].result = script.runs[1].result

\* C9 witness: a fixture that writes talent 1 twice, differently, around
\* another talent; both rounds, run at different times with an epoch
\* parameter, returned the same two ids.
C9_Witness ==
  /\ script.at = "done" /\ script.params.epoch.t = "string"
  /\ Len(script.fixture) = 3
  /\ script.fixture[1].id = script.fixture[3].id
  /\ script.fixture[1] # script.fixture[3]
  /\ script.fixture[2].id # script.fixture[1].id
  /\ script.runs[1].time < script.runs[2].time
  /\ Len(script.runs[1].result.value) = 2
  /\ script.runs[2].result = script.runs[1].result

\* C10: a search whose keywords parameter is the empty string sends the
\* request (query tree, sort) of the same search without the parameter:
\* no multi-field text node, the three-key sort; and it returns what that
\* search returns in the same state of the engine.
C10_EmptyKeywords ==
  (Searched /\ ret.arg.keywords = String("")) =>
    LET twin == search(exists, docs, ret.score, now,
                       [ret.arg EXCEPT !.keywords = Absent], ret.fault)
    IN  /\ Request = twin.calls[1].request
        /\ ~HasMultiMatch(Request.query)
        /\ Request.sort = Some(sorting_criteria)
        /\ ret.result = twin.result

\* C10 witness: a search with empty keywords that returned two ids.
C10_Witness ==
  /\ Searched /\ ret.arg.keywords = String("")
  /\ ret.result.kind = "ok" /\ Len(ret.result.value) = 2

\* C11: in every search the request carries the three-key sort exactly when
\* its query has no multi-field text node, and carries no sort otherwise,
\* whatever the keywords parameter is (absent, empty string, non-empty
\* string, a value that is no string): the test of the keywords in search
\* and the one in full_text_search agree.
C11_SortOrRelevance ==
  Searched =>
    /\ Request.sort.some <=> ~HasMultiMatch(Request.query)
    /\ Request.sort.some => Request.sort = Some(sorting_criteria)
    /\ keywords_present(ret.arg) <=> full_text_search(ret.arg).some
    /\ HasMultiMatch(Request.query) <=>
         (ret.arg.keywords.t = "string" /\ ret.arg.keywords.s # "")

\* C11 witness: a search whose keywords parameter is a number was sent with
\* the sort and without text node, and returned two ids.
C11_Witness ==
  /\ Searched /\ ret.arg.keywords = U64(7)
  /\ Request.sort = Some(sorting_criteria)
  /\ ~HasMultiMatch(Request.query)
  /\ ret.result.kind = "ok" /\ Len(ret.result.value) = 2

\* A search with non-empty keywords was sent with a text node and without
\* sort, and returned an id.
C11_WitnessText ==
  /\ Searched /\ ret.arg.keywords = String("Rust")
  /\ Request.sort = None
  /\ HasMultiMatch(Request.query)
  /\ ret.result.kind = "ok" /\ Len(ret.result.value) = 1

\* The ids of the hits of the response whose score, if any, is above 0.9,
\* in the order of the response.
KeptIds ==
  LET kept == SelectSeq(Response.value,
                        LAMBDA h : ~h.score.some \/ h.score.v > ScoreThreshold)
  IN  [i \in 1..Len(kept) |-> kept[i].source.v.id] \o <<>>

RECURSIVE IsSubsequence(_, _)
\* a can be had from b by removing elements
IsSubsequence(a, b) ==
  IF a = <<>> THEN TRUE
  ELSE IF b = <<>> THEN FALSE
  ELSE IF Head(a) = Head(b) THEN IsSubsequence(Tail(a), Tail(b))
  ELSE IsSubsequence(a, Tail(b))

\* The place of the first x in s
FirstAt(s, x) == CHOOSE i \in 1..Len(s) : s[i] = x /\ \A j \in 1..i - 1 : s[j] # x

\* C12: what a search returns from an answered request has no two equal
\* adjacent ids, is a subsequence of the ids of the hits above the
\* threshold in the engine's order, holds every one of those ids, keeps the
\* order of their first occurrences, and has one id for each run of equal
\* adjacent ids, so that nothing but adjacent repetitions is removed.
C12_DedupAdjacentOnly ==
  (Searched /\ Response.kind = "ok" /\ ret.result.kind = "ok") =>
    LET out  == ret.result.value
        kept == KeptIds
    IN  /\ \A i \in 1..Len(out) - 1 : out[i] # out[i + 1]
        /\ IsSubsequence(out, kept)
        /\ Range(out) = Range(kept)
        /\ \A x, y \in Range(kept) :
              FirstAt(kept, x) < FirstAt(kept, y) => FirstAt(out, x) < FirstAt(out, y)
        /\ Len(out) = Cardinality({i \in 1..Len(kept) : i = 1 \/ kept[i] # kept[i - 1]})

\* C12 witness: of four scored hits with ids 1, 2, 1, 2 the second is at the
\* threshold and dropped, which makes the two hits of id 1 adjacent, and the
\* search returned 1, 2.
C12_Witness ==
  /\ Searched /\ Response.kind = "ok" /\ Len(Response.value) = 4
  /\ [i \in 1..4 |-> Response.value[i].source.v.id] = <<1, 2, 1, 2>>
  /\ [i \in 1..4 |-> Response.value[i].score.v] = <<10, 9, 10, 10>>
  /\ ret.result = Ok(<<1, 2>>)

\* Unscored hits with ids 1, 1, 2, 1: the id that comes back after another
\* stays, and the search returned 1, 2, 1.
C12_WitnessApart ==
  /\ Searched /\ Response.kind = "ok" /\ Len(Response.value) = 4
  /\ KeptIds = <<1, 1, 2, 1>>
  /\ ret.result = Ok(<<1, 2, 1>>)

\* The calls reset_index made, by name, in order
ResetCalls == [i \in 1..Len(ret.calls) |-> ret.calls[i].call] \o <<>>

\* C13: reset_index makes two calls, the deletion and then the creation,
\* once each whatever the deletion answered; when the deletion succeeded
\* and the creation failed, the index is absent and reset_index returns the
\* error; between a successful deletion and the creation the index is
\* absent; a search that finds the index absent gets an error from the
\* engine and returns the empty sequence; after a successful reset the
\* index is there and empty, and a search of an empty index returns the
\* empty sequence.
C13_ResetInTwoSteps ==
  /\ ret.op = "reset_index" =>
        /\ ResetCalls = <<"delete_index", "create">>
        /\ (ret.calls[1].response.kind = "ok" /\ ret.calls[2].response.kind = "err")
             => (~exists /\ ret.result.kind = "err")
        /\ ret.result.kind = "ok" => (exists /\ docs = <<>>)
  /\ (pc.at = "deleted" /\ pc.deleted.kind = "ok") => ~exists
  /\ (Searched /\ ~exists) =>
        (Response.kind = "err" /\ ret.result = Ok(<<>>))
  /\ (Searched /\ exists /\ docs = <<>>) => ret.result = Ok(<<>>)

\* C13 witness: a search of the default index that came between the
\* successful deletion and the creation of a reset was answered that the
\* index is missing, and returned the empty sequence.
C13_Witness ==
  /\ pc.at = "deleted" /\ pc.deleted.kind = "ok"
  /\ Searched /\ ret.arg.index = Absent /\ ret.fault = "none"
  /\ Response = Err("index_missing")
  /\ ret.result = Ok(<<>>)

\* A reset whose deletion succeeded and whose creation failed is returning
\* the error, the index absent.
C13_WitnessFailed ==
  /\ ret.op = "reset_index"
  /\ ret.calls[1].response.kind = "ok" /\ ret.calls[2].response.kind = "err"
  /\ ret.result.kind = "err" /\ ~exists

\* A search of the index after a successful reset, nothing written yet,
\* was answered without hits and returned the empty sequence.
C13_WitnessFresh ==
  /\ Searched /\ exists /\ docs = <<>> /\ pc.at = "idle"
  /\ Response = Ok(<<>>) /\ ret.result = Ok(<<>>)

====
